---- MODULE Spec2Model ----
(***************************************************************************)
(* Model of the Gutenberg crawler, src/gutenberg/crawl.py.                 *)
(*                                                                         *)
(* The state machines of this module:                                      *)
(*   SpecFetch   fetch_text, one step per HTTP attempt and per backoff     *)
(*               sleep;                                                    *)
(*   SpecLocate  get_book_data, one step per probed candidate URL;         *)
(*   SpecDownload  one download_books unit, one step per call of           *)
(*               fetch_text it awaits;                                     *)
(*   Spec        get_books_list with its download_books units, one step    *)
(*               per await of a unit and per iteration of the page loop;   *)
(*   SpecMain    the script's entry point, invoked again and again over    *)
(*               the same site and the same working directory;             *)
(*   SpecServed  Spec with every index page served, under weak fairness.   *)
(* The machines of the callers use the callees as operators (fetch_text,   *)
(* get_book_data), each computed as the step machine computes it.          *)
(***************************************************************************)
EXTENDS Integers, Sequences, FiniteSets, TLC

VARIABLES
  \* fetch_text
  fetchPc, attempt, fetchRet, responses, sleeps,
  \* get_book_data
  locPc, locBook, world, i, extIdx, variant, probed, locRet,
  \* get_books_list and its download_books units
  pc, catalog, index_url, text, books, processed_books, tasks, progress,
  pagesProcessed, nScheduled, eligible, completed,
  \* one download_books unit, call by call
  unitPc, unitBook, unitMetadata, unitText, unitRet, unitUpdates,
  metaUrls, metaText,
  \* __main__
  mainPc, artifact, stdout, invocations, returnedRuns

fetchVars == <<fetchPc, attempt, fetchRet, responses, sleeps>>
locVars == <<locPc, locBook, world, i, extIdx, variant, probed, locRet>>
crawlVars == <<pc, catalog, index_url, text, books, processed_books, tasks,
               progress, pagesProcessed, nScheduled, eligible, completed>>
unitVars == <<unitPc, unitBook, unitMetadata, unitText, unitRet, unitUpdates,
              metaUrls, metaText>>
mainVars == <<mainPc, artifact, stdout, invocations, returnedRuns>>
vars == <<fetchVars, locVars, crawlVars, unitVars, mainVars>>

\* History the code does not keep: pagesProcessed counts the iterations of
\* the page loop that reached the end of gather, nScheduled the units
\* created per id, eligible holds the ids whose unit resolved an english
\* language and found a content, completed lists the units of the page in
\* the order they returned; probed and metaUrls list the URLs passed to
\* fetch_text, responses and sleeps what a call met and slept;
\* returnedRuns counts the calls of get_books_list that returned to
\* __main__.

(***************************************************************************)
(* Python values.  None is the empty tuple and a value v is <<v>>, so that *)
(* None differs from every text, the empty text included.                  *)
(***************************************************************************)
None == <<>>
Some(v) == <<v>>

\* Truthy as `if text is not None:` would test it.
TruthyNotNone(r) == r # None

\* `if text:` on the result of fetch_text: None and "" are both falsy.
Truthy(r) == r # None /\ r[1] # ""

(***************************************************************************)
(* fetch_text (crawl.py 21-43)                                             *)
(***************************************************************************)
retries == 3

\* What one `session.get` can meet.  exc: the exception raised by the
\* request itself; status: the response status; read: how reading the body
\* inside response.text() ends; utf8: the primary decoding (None: it raises
\* UnicodeDecodeError); latin1: the ISO-8859-1 decoding of the same bytes.
Response(exc, status, read, utf8, latin1) ==
  [exc |-> exc, status |-> status, read |-> read, utf8 |-> utf8, latin1 |-> latin1]

Responses ==
  { Response("timeout", 0, "none", None, ""),
    Response("error", 0, "none", None, ""),
    Response("none", 404, "ok", Some("404 Not Found"), "404 Not Found"),
    Response("none", 503, "none", None, ""),
    Response("none", 200, "ok", Some("book text"), "book text"),
    Response("none", 200, "ok", Some(""), ""),
    Response("none", 200, "ok", None, "latin-1 text"),
    Response("none", 200, "timeout", None, ""),
    Response("none", 200, "error", None, "") }

\* AttemptEffect without the test of the response status.
AttemptEffectAnyStatus(resp) ==
  IF resp.exc # "none" THEN "except"
  ELSE IF resp.read = "ok" THEN "return" ELSE "except"

\* One iteration of the retry loop: "return" (lines 27-33), "continue"
\* (lines 34-36, which skips the sleep of line 42) or "except" (lines 37-40,
\* which falls through to the sleep).  An exception raised while the body is
\* read inside response.text() is not a UnicodeDecodeError and reaches the
\* outer handlers.
AttemptEffect(resp) ==
  IF resp.exc # "none" THEN "except"
  ELSE IF resp.status = 200
       THEN IF resp.read = "ok" THEN "return" ELSE "except"
       ELSE "continue"

\* Lines 28-33: response.text(), and on UnicodeDecodeError the raw bytes
\* decoded as ISO-8859-1.
Decoded(resp) == IF resp.utf8 # None THEN resp.utf8[1] ELSE resp.latin1

\* SleepsAfter for a loop that sleeps after every failed attempt.
SleepsAfterAlways(a) == TRUE

\* Line 41: the backoff sleep is taken only when another attempt follows.
SleepsAfter(a) == a < retries - 1

\* Line 42.
Backoff(a) == 2 ^ a

FetchInit ==
  /\ fetchPc = "get"
  /\ attempt = 0
  /\ fetchRet = None
  /\ responses = <<>>
  /\ sleeps = <<>>

FetchIdle ==
  /\ fetchPc = "idle"
  /\ attempt = 0
  /\ fetchRet = None
  /\ responses = <<>>
  /\ sleeps = <<>>

\* One pass through the body of `for attempt in range(retries)` up to the
\* next suspension: the request, then return, continue or the handlers.
FetchAttempt ==
  /\ fetchPc = "get"
  /\ \E resp \in Responses :
       LET eff == AttemptEffect(resp) IN
       /\ responses' = Append(responses, resp)
       /\ IF eff = "return"
          THEN /\ fetchRet' = Some(Decoded(resp))
               /\ fetchPc' = "returned"
               /\ attempt' = attempt
          ELSE IF eff = "continue"
          THEN IF attempt + 1 < retries
               THEN /\ attempt' = attempt + 1
                    /\ fetchPc' = "get"
                    /\ fetchRet' = fetchRet
               ELSE /\ attempt' = attempt
                    /\ fetchPc' = "returned"
                    /\ fetchRet' = None
          ELSE IF SleepsAfter(attempt)
               THEN /\ attempt' = attempt
                    /\ fetchPc' = "sleep"
                    /\ fetchRet' = fetchRet
               ELSE /\ attempt' = attempt
                    /\ fetchPc' = "returned"
                    /\ fetchRet' = None
  /\ UNCHANGED sleeps

\* `await asyncio.sleep(2 ** attempt)`, then the next iteration.
FetchSleep ==
  /\ fetchPc = "sleep"
  /\ sleeps' = Append(sleeps, Backoff(attempt))
  /\ attempt' = attempt + 1
  /\ fetchPc' = "get"
  /\ UNCHANGED <<fetchRet, responses>>

\* fetch_text as a function of what its successive requests meet.
RECURSIVE fetch_loop(_, _)
fetch_loop(resps, a) ==
  IF a >= retries THEN None
  ELSE IF AttemptEffect(resps[a + 1]) = "return"
       THEN Some(Decoded(resps[a + 1]))
       ELSE fetch_loop(resps, a + 1)

fetch_text(resps) == fetch_loop(resps, 0)

\* Every value one fetch_text call can return.
FetchResults == { fetch_text(rs) : rs \in [1..retries -> Responses] }

(***************************************************************************)
(* get_book_data (crawl.py 46-83)                                          *)
(***************************************************************************)
NumVersions == 10

extensions == <<"epub", "html", "pdf", "txt", "txt.utf8">>

\* HasNoImages with the html extension left out of the test.
HasNoImagesEpubOnly(ext) == ext = "epub"

\* Lines 53 and 69: `if ext in ["epub", "html"]`.
HasNoImages(ext) == ext \in {"epub", "html"}

\* Line 47.
base_url(book_id) == "https://www.gutenberg.org/files/" \o book_id

\* Lines 52, 54, 68, 70: the URL probed at a position of the loops.
UrlAt(book_id, phase, ver, e, var) ==
  LET stem == IF phase = "versioned"
              THEN base_url(book_id) \o "/" \o book_id \o "-" \o ToString(ver)
                     \o "." \o extensions[e]
              ELSE base_url(book_id) \o "/" \o book_id \o "." \o extensions[e]
  IN IF var = "noimages" THEN stem \o ".noimages" ELSE stem

\* The first probe of an extension: the no-images variant for epub and html.
FirstVariant(e) == IF HasNoImages(extensions[e]) THEN "noimages" ELSE "plain"

Pos(phase, ver, e, var) == [phase |-> phase, i |-> ver, e |-> e, var |-> var]

StartPos == Pos("versioned", 0, 1, FirstVariant(1))

\* The position of the probe that follows a failed probe: the plain URL
\* after the no-images one, then the next extension, then the next version,
\* then the unversioned loop, then the end (line 82).
NextPos(p) ==
  IF p.var = "noimages" THEN Pos(p.phase, p.i, p.e, "plain")
  ELSE IF p.e < Len(extensions)
       THEN Pos(p.phase, p.i, p.e + 1, FirstVariant(p.e + 1))
  ELSE IF p.phase = "versioned" /\ p.i + 1 < NumVersions
       THEN Pos("versioned", p.i + 1, 1, FirstVariant(1))
  ELSE IF p.phase = "versioned"
       THEN Pos("unversioned", 0, 1, FirstVariant(1))
  ELSE Pos("end", 0, 1, "plain")

\* The archive as the locator sees it: what fetch_text returns for a URL.
\* A URL the world does not name is not served (every attempt fails).
LocBookIds == {"12345", "84"}

SampleURLs ==
  { "https://www.gutenberg.org/files/12345/12345-0.txt",
    "https://www.gutenberg.org/files/12345/12345-0.epub.noimages",
    "https://www.gutenberg.org/files/12345/12345-9.html",
    "https://www.gutenberg.org/files/84/84.txt.utf8" }

\* What a served URL returns: a text, or the empty text of a 200 response
\* with an empty body; both are values of FetchResults.
ServedResults == {None, Some(""), Some("book text")}

Worlds == [SampleURLs -> ServedResults]

ServerFetch(w, url) == IF url \in DOMAIN w THEN w[url] ELSE None

LocateInit ==
  /\ locPc = "versioned"
  /\ locBook \in LocBookIds
  /\ world \in Worlds
  /\ i = StartPos.i
  /\ extIdx = StartPos.e
  /\ variant = StartPos.var
  /\ probed = <<>>
  /\ locRet = None

LocateIdle ==
  /\ locPc = "idle"
  /\ locBook = "12345"
  /\ world = [u \in SampleURLs |-> None]
  /\ i = 0
  /\ extIdx = 1
  /\ variant = "plain"
  /\ probed = <<>>
  /\ locRet = None

\* One `text = await fetch_text(session, ...)` and the `if text:` after it,
\* in the versioned loops (lines 50-64) or the unversioned loop (lines 67-80);
\* after the last probe, line 83.
LocateProbe(phase) ==
  /\ locPc = phase
  /\ LET url == UrlAt(locBook, phase, i, extIdx, variant)
         r == ServerFetch(world, url)
         n == NextPos(Pos(phase, i, extIdx, variant))
     IN /\ probed' = Append(probed, url)
        /\ IF Truthy(r)
           THEN /\ locRet' = r
                /\ locPc' = "returned"
                /\ UNCHANGED <<i, extIdx, variant>>
           ELSE /\ locRet' = None
                /\ locPc' = IF n.phase = "end" THEN "returned" ELSE n.phase
                /\ i' = n.i
                /\ extIdx' = n.e
                /\ variant' = n.var
  /\ UNCHANGED <<locBook, world>>

\* get_book_data as a function of the archive: the first probe, in the order
\* of the loops, whose text is truthy.
RECURSIVE locate_from(_, _, _)
locate_from(w, book_id, p) ==
  IF p.phase = "end" THEN None
  ELSE LET r == ServerFetch(w, UrlAt(book_id, p.phase, p.i, p.e, p.var))
       IN IF Truthy(r) THEN r ELSE locate_from(w, book_id, NextPos(p))

get_book_data(w, book_id) == locate_from(w, book_id, StartPos)

\* Every value get_book_data can return for a book.
LocateResults == [b \in LocBookIds |-> { get_book_data(w, b) : w \in Worlds }]

(***************************************************************************)
(* get_book_metadata (crawl.py 86-103)                                     *)
(***************************************************************************)
\* A row of the bibrec table: the text of its th, and of its td what the
\* code takes from it: the first run of four digits (None: no match) and
\* the text stripped.
Row(th, year, stripped) == [th |-> th, year |-> year, stripped |-> stripped]

\* A catalog detail page: whether it holds the table, and the table's rows.
Detail(table, rows) == [table |-> table, rows |-> rows]

DetailPages ==
  { Detail(TRUE, << Row("Author", None, "Shelley, Mary"),
                    Row("Language", None, "English"),
                    Row("Release Date", Some("1998"), "Jun 17, 1998 [eBook]") >>),
    Detail(TRUE, << Row("Language", None, "French"),
                    Row("Release Date", Some("2004"), "Mar 1, 2004 [eBook]") >>),
    Detail(TRUE, << Row("Author", None, "Anonymous") >>),
    Detail(FALSE, <<>>) }

\* Lines 94-102: the rows in order, a later matching row overwriting.
RECURSIVE scan_rows(_, _, _)
scan_rows(rows, k, metadata) ==
  IF k > Len(rows) THEN metadata
  ELSE LET row == rows[k]
           m1 == IF row.th = "Release Date" /\ row.year # None
                 THEN [metadata EXCEPT !.year = row.year[1]]
                 ELSE metadata
           m2 == IF row.th = "Language"
                 THEN [m1 EXCEPT !.language = row.stripped]
                 ELSE m1
       IN scan_rows(rows, k + 1, m2)

\* Line 87.
DetailURL(book_id) == "https://www.gutenberg.org/ebooks/" \o book_id

\* What fetch_text can return for a detail URL.
DetailResults == {None} \cup { Some(d) : d \in DetailPages }

\* get_book_metadata whose language defaults to the target language.
get_book_metadata_default_english(r) ==
  LET metadata == [year |-> "Unknown", language |-> "English"]
  IN IF r # None /\ r[1].table THEN scan_rows(r[1].rows, 1, metadata)
     ELSE metadata

\* r: what fetch_text returned for the detail page (None, or the page).
get_book_metadata(r) ==
  LET metadata == [year |-> "Unknown", language |-> "Unknown"]
  IN IF r # None /\ r[1].table THEN scan_rows(r[1].rows, 1, metadata)
     ELSE metadata

MetadataResults ==
  { get_book_metadata(r) : r \in {None} \cup { Some(d) : d \in DetailPages } }

(***************************************************************************)
(* download_books (crawl.py 106-123)                                       *)
(***************************************************************************)
\* str.lower() on the language texts that occur.
Lower(str) ==
  CASE str = "English" -> "english"
    [] str = "French" -> "french"
    [] str = "Unknown" -> "unknown"
    [] OTHER -> str

\* LanguageMatches without the language filter.
LanguageMatchesAny(metadata) == TRUE

\* Line 109, negated: the unit goes on to the content.
LanguageMatches(metadata) == Lower(metadata.language) = "english"

\* Line 107 (and 141): book.a['href'].split('/')[-1]; an href is held as
\* its parts between the slashes.
book_id_of(book) == book.href[Len(book.href)]

\* Lines 112-113.
title_of(book) == IF book.title # None THEN book.title[1] ELSE "No Title"
author_of(book) == IF book.subtitle # None THEN book.subtitle[1] ELSE "Unknown Author"

\* UnitResult that makes a record of a search that found no content.
UnitResultAlways(book, metadata, t) ==
  Some([ID |-> book_id_of(book), Title |-> title_of(book),
        Author |-> author_of(book), Year |-> metadata.year,
        Text |-> IF t = None THEN "" ELSE t[1]])

\* Lines 116-123: the unit's result for the text the locator returned.
UnitResult(book, metadata, t) ==
  IF Truthy(t)
  THEN Some([ID |-> book_id_of(book), Title |-> title_of(book),
             Author |-> author_of(book), Year |-> metadata.year, Text |-> t[1]])
  ELSE None

\* A unit as gather starts it: suspended in get_book_metadata.
NewUnit(book) ==
  [book |-> book, pc |-> "metadata",
   metadata |-> [year |-> "Unknown", language |-> "Unknown"],
   text |-> None, result |-> None]

(***************************************************************************)
(* get_books_list (crawl.py 126-153)                                       *)
(***************************************************************************)
NumPages == 2

Host == "https://www.gutenberg.org"

\* The href of the k-th results page; page 0 is the start URL of line 127.
Href(k) ==
  IF k = 0 THEN "/ebooks/search/?sort_order=downloads&languages=en"
  ELSE "/ebooks/search/?sort_order=downloads&languages=en&start_index="
         \o ToString(25 * k + 1)

StartURL == "https://www.gutenberg.org/ebooks/search/?sort_order=downloads&languages=en"

IndexURLs == { Host \o Href(k) : k \in 0..(NumPages - 1) }

BookIds == LocBookIds

\* An li.booklink element.
Entry(b, title, subtitle) ==
  [href |-> <<"", "ebooks", b>>, title |-> title, subtitle |-> subtitle]

E1 == Entry("12345", Some("Frankenstein"), Some("Mary Shelley"))
E2 == Entry("84", Some("Beowulf"), None)

Listings == { <<>>, <<E1>>, <<E1, E2>>, <<E1, E1>> }

\* An index page as parsed: its listing (line 135) and the href of its
\* "Next" link (line 148; None: no such link).  raw is "" for a 200
\* response with an empty body.
Page(raw, entries, next) == [raw |-> raw, entries |-> entries, next |-> next]

Pages ==
  { Page("<html>", l, n) :
      l \in Listings, n \in {None} \cup { Some(Href(k)) : k \in 0..(NumPages - 1) } }

EmptyBody == Page("", <<>>, None)

\* `if text:` on an index page.
TruthyPage(r) == r # None /\ r[1].raw # ""

\* NoListing without the break on an empty listing.
NoListingNever(book_elements) == FALSE

\* next_index_url that goes back to the start URL.
next_index_url_start(next_button) == StartURL

\* Line 136: `if not book_elements: break`.
NoListing(book_elements) == book_elements = <<>>

\* Line 150.
next_index_url(next_button) == Host \o next_button[1]

\* IsNew without the look-up in the processed set.
IsNewAlways(book_id, processed) == TRUE

\* Line 142.
IsNew(book_id, processed) == book_id \notin processed

\* schedule that tests every entry against the processed set as it was
\* before the page and marks the ids after the loop.
schedule_mark_after(book_elements, k, processed, acc) ==
  LET new == SelectSeq(SubSeq(book_elements, k, Len(book_elements)),
                       LAMBDA book : IsNew(book_id_of(book), processed))
  IN [tasks |-> acc \o [n \in 1..Len(new) |-> NewUnit(new[n])],
      processed |-> processed \cup { book_id_of(new[n]) : n \in 1..Len(new) }]

\* Lines 139-144: the listing in order; a new id gets a unit and joins the
\* processed set at once, so a repeat on the same page is skipped.
RECURSIVE schedule(_, _, _, _)
schedule(book_elements, k, processed, acc) ==
  IF k > Len(book_elements) THEN [tasks |-> acc, processed |-> processed]
  ELSE LET book == book_elements[k]
           id == book_id_of(book)
       IN IF IsNew(id, processed)
          THEN schedule(book_elements, k + 1, processed \cup {id},
                        Append(acc, NewUnit(book)))
          ELSE schedule(book_elements, k + 1, processed, acc)

\* GatherReady for a wait that ends with the first unit to return.
GatherReadyFirst(ts) == \E k \in 1..Len(ts) : ts[k].pc = "done"

\* Line 145: gather returns when every unit has returned.
GatherReady(ts) == \A k \in 1..Len(ts) : ts[k].pc = "done"

\* The indices of `order` from place n on whose unit returned a record.
RECURSIVE WithRecord(_, _, _)
WithRecord(ts, order, n) ==
  IF n > Len(order) THEN <<>>
  ELSE IF ts[order[n]].result # None
       THEN <<order[n]>> \o WithRecord(ts, order, n + 1)
       ELSE WithRecord(ts, order, n + 1)

\* truthy_results for a wait that hands the results over as the units
\* complete (asyncio.as_completed in the place of asyncio.gather).
truthy_results_as_completed(ts, k) ==
  LET done == WithRecord(ts, completed, 1)
  IN [n \in 1..Len(done) |-> ts[done[n]].result[1]]

\* Line 146: the truthy results, in the order of the tasks.
RECURSIVE truthy_results(_, _)
truthy_results(ts, k) ==
  IF k > Len(ts) THEN <<>>
  ELSE IF ts[k].result # None
       THEN <<ts[k].result[1]>> \o truthy_results(ts, k + 1)
       ELSE truthy_results(ts, k + 1)

\* The count of processed pages stops counting at PageCap, which a walk
\* that ends never reaches.
PageCap == NumPages + 1

CountUp(n) == IF n < PageCap THEN n + 1 ELSE n

\* The spellings of the target language, for the set `eligible` of the ids
\* whose unit met the condition for a record: the language is "english" in
\* any letter case and the locator returned a content.
EnglishAnyCase == {"english", "English", "ENGLISH"}

CrawlInit ==
  /\ pc = "fetch"
  /\ catalog \in [IndexURLs -> Pages]
  /\ index_url = StartURL
  /\ text = None
  /\ books = <<>>
  /\ processed_books = {}
  /\ tasks = <<>>
  /\ progress = [total |-> 0, n |-> 0]
  /\ pagesProcessed = 0
  /\ nScheduled = [b \in BookIds |-> 0]
  /\ eligible = {}
  /\ completed = <<>>

CrawlIdle ==
  /\ pc = "idle"
  /\ catalog = [u \in IndexURLs |-> EmptyBody]
  /\ index_url = StartURL
  /\ text = None
  /\ books = <<>>
  /\ processed_books = {}
  /\ tasks = <<>>
  /\ progress = [total |-> 0, n |-> 0]
  /\ pagesProcessed = 0
  /\ nScheduled = [b \in BookIds |-> 0]
  /\ eligible = {}
  /\ completed = <<>>

\* What fetch_text can return for an index URL: None, the empty text, or
\* the page the catalog holds.
IndexResults(url) == {None, Some(EmptyBody), Some(catalog[url])}

\* Lines 132-144: one iteration of `while True` up to the gather.  r is
\* what fetch_text returned.  A falsy text leaves the `if` of line 133
\* without a break, and the loop fetches again.
IndexFetch(r) ==
  /\ pc = "fetch"
  /\ text' = r
  /\ IF TruthyPage(r)
     THEN LET book_elements == r[1].entries
              s == schedule(book_elements, 1, processed_books, <<>>)
          IN IF NoListing(book_elements)
             THEN /\ pc' = "done"
                  /\ UNCHANGED <<tasks, processed_books, progress, nScheduled,
                                 completed>>
             ELSE /\ pc' = "gather"
                  /\ progress' = [total |-> Len(book_elements), n |-> 0]
                  /\ completed' = <<>>
                  /\ tasks' = s.tasks
                  /\ processed_books' = s.processed
                  /\ nScheduled' =
                       [b \in BookIds |->
                          nScheduled[b]
                            + Cardinality({k \in 1..Len(s.tasks) :
                                             book_id_of(s.tasks[k].book) = b})]
     ELSE /\ pc' = "fetch"
          /\ UNCHANGED <<tasks, processed_books, progress, nScheduled,
                         completed>>
  /\ UNCHANGED <<catalog, index_url, books, pagesProcessed, eligible>>

\* Lines 108-111: get_book_metadata returns to unit k; a language other
\* than english ends the unit.
UnitMetadata(k) ==
  /\ pc = "gather"
  /\ k \in 1..Len(tasks)
  /\ tasks[k].pc = "metadata"
  /\ \E metadata \in MetadataResults :
       IF LanguageMatches(metadata)
       THEN /\ tasks' = [tasks EXCEPT ![k].metadata = metadata, ![k].pc = "data"]
            /\ UNCHANGED <<progress, completed>>
       ELSE /\ tasks' = [tasks EXCEPT ![k].metadata = metadata, ![k].pc = "done"]
            /\ progress' = [progress EXCEPT !.n = @ + 1]
            /\ completed' = Append(completed, k)
  /\ UNCHANGED <<pc, catalog, index_url, text, books, processed_books,
                 pagesProcessed, nScheduled, eligible>>

\* Lines 114-123: get_book_data returns to unit k.
UnitData(k) ==
  /\ pc = "gather"
  /\ k \in 1..Len(tasks)
  /\ tasks[k].pc = "data"
  /\ \E t \in LocateResults[book_id_of(tasks[k].book)] :
       /\ tasks' = [tasks EXCEPT ![k].text = t, ![k].pc = "done",
                      ![k].result = UnitResult(tasks[k].book, tasks[k].metadata, t)]
       /\ eligible' =
            IF tasks[k].metadata.language \in EnglishAnyCase /\ t # None
            THEN eligible \cup {book_id_of(tasks[k].book)}
            ELSE eligible
  /\ progress' = [progress EXCEPT !.n = @ + 1]
  /\ completed' = Append(completed, k)
  /\ UNCHANGED <<pc, catalog, index_url, text, books, processed_books,
                 pagesProcessed, nScheduled>>

\* Lines 145-152: gather returns, the records join books, and the "Next"
\* link is followed or the loop is left.
GatherReturn ==
  /\ pc = "gather"
  /\ GatherReady(tasks)
  /\ books' = books \o truthy_results(tasks, 1)
  /\ pagesProcessed' = CountUp(pagesProcessed)
  /\ LET next_button == text[1].next
     IN IF next_button # None
        THEN /\ index_url' = next_index_url(next_button)
             /\ pc' = "fetch"
        ELSE /\ index_url' = index_url
             /\ pc' = "done"
  /\ UNCHANGED <<catalog, text, processed_books, tasks, progress, nScheduled,
                 eligible, completed>>

(***************************************************************************)
(* download_books, call by call (crawl.py 106-123 with 86-103 and 46-83)   *)
(***************************************************************************)
\* One unit for a listing entry, in every archive of Worlds: suspended in
\* the fetch_text call of get_book_metadata; get_book_data is not called
\* yet.
DownloadInit ==
  /\ unitPc = "metadata"
  /\ unitBook \in {E1, E2}
  /\ unitMetadata = [year |-> "Unknown", language |-> "Unknown"]
  /\ unitText = None
  /\ unitRet = None
  /\ unitUpdates = 0
  /\ metaUrls = <<>>
  /\ metaText = None
  /\ locPc = "idle"
  /\ locBook = book_id_of(unitBook)
  /\ world \in Worlds
  /\ i = StartPos.i
  /\ extIdx = StartPos.e
  /\ variant = StartPos.var
  /\ probed = <<>>
  /\ locRet = None

DownloadIdle ==
  /\ unitPc = "idle"
  /\ unitBook = E1
  /\ unitMetadata = [year |-> "Unknown", language |-> "Unknown"]
  /\ unitText = None
  /\ unitRet = None
  /\ unitUpdates = 0
  /\ metaUrls = <<>>
  /\ metaText = None

\* Lines 107-114 with 87-103: the fetch_text call of get_book_metadata
\* returns r; the table is parsed; a language other than english ends the
\* unit, else get_book_data is called.
DownloadMetadata(r) ==
  /\ unitPc = "metadata"
  /\ metaUrls' = Append(metaUrls, DetailURL(book_id_of(unitBook)))
  /\ metaText' = r
  /\ unitMetadata' = get_book_metadata(r)
  /\ IF LanguageMatches(get_book_metadata(r))
     THEN /\ unitPc' = "data"
          /\ locPc' = "versioned"
          /\ UNCHANGED <<unitUpdates, unitRet>>
     ELSE /\ unitPc' = "done"
          /\ unitUpdates' = unitUpdates + 1
          /\ unitRet' = None
          /\ UNCHANGED locPc
  /\ UNCHANGED <<unitBook, unitText, locBook, world, i, extIdx, variant,
                 probed, locRet>>

\* Lines 114-123: get_book_data has returned.
DownloadData ==
  /\ unitPc = "data"
  /\ locPc = "returned"
  /\ unitText' = locRet
  /\ unitUpdates' = unitUpdates + 1
  /\ unitRet' = UnitResult(unitBook, unitMetadata, locRet)
  /\ unitPc' = "done"
  /\ UNCHANGED <<unitBook, unitMetadata, metaUrls, metaText, locVars>>

(***************************************************************************)
(* clean_text, save_to_csv and __main__ (crawl.py 156-175)                 *)
(***************************************************************************)
\* Bound on the invocations of the script in one working directory.
MaxInvocations == 2

\* Lines 156-161 on the texts that occur: a run of non-ASCII characters
\* becomes one space, control characters go (line feed, carriage return
\* and tab are control characters and go as well, before line 160 can
\* replace them).
clean_text(t) ==
  CASE t = "book\ntext" -> "booktext"
    [] t = "book\ttext" -> "booktext"
    [] OTHER -> t

\* The columns of pd.DataFrame(books): the keys of the records; a frame
\* made of no record has no column.
Columns(bs) == UNION { DOMAIN bs[n] : n \in 1..Len(bs) }

\* Lines 165-167: None when `df['Text']` raises KeyError, before any file
\* is opened; else the rows written to gutenberg_books.tsv.
save_to_csv(bs) ==
  IF "Text" \notin Columns(bs) THEN None
  ELSE Some([n \in 1..Len(bs) |-> [bs[n] EXCEPT !.Text = clean_text(@)]])

\* The file a run of another day left in the working directory.
OldArtifact ==
  Some(<< [ID |-> "1342", Title |-> "Pride and Prejudice",
           Author |-> "Jane Austen", Year |-> "1998", Text |-> "old text"] >>)

\* The interpreter before line 171, with or without the file, over every
\* catalog; get_books_list is not called yet.
MainInit ==
  /\ mainPc = "start"
  /\ artifact \in {None, OldArtifact}
  /\ stdout = <<>>
  /\ invocations = 1
  /\ returnedRuns = 0
  /\ pc = "idle"
  /\ catalog \in [IndexURLs -> Pages]
  /\ index_url = StartURL
  /\ text = None
  /\ books = <<>>
  /\ processed_books = {}
  /\ tasks = <<>>
  /\ progress = [total |-> 0, n |-> 0]
  /\ pagesProcessed = 0
  /\ nScheduled = [b \in BookIds |-> 0]
  /\ eligible = {}
  /\ completed = <<>>

MainIdle ==
  /\ mainPc = "idle"
  /\ artifact = None
  /\ stdout = <<>>
  /\ invocations = 0
  /\ returnedRuns = 0

\* Lines 171-175: with the file, the message and the end of the script;
\* without it, asyncio.run(get_books_list()) starts.
MainEntry ==
  /\ mainPc = "start"
  /\ IF artifact # None
     THEN /\ mainPc' = "skipped"
          /\ stdout' = Append(stdout, "Data already downloaded.")
          /\ UNCHANGED pc
     ELSE /\ mainPc' = "run"
          /\ pc' = "fetch"
          /\ UNCHANGED stdout
  /\ UNCHANGED <<artifact, invocations, returnedRuns, catalog, index_url, text,
                 books, processed_books, tasks, progress, pagesProcessed,
                 nScheduled, eligible, completed>>

\* Lines 172-173: get_books_list has returned and save_to_csv runs; when
\* it raises, the script ends with the traceback and no file.
MainSave ==
  /\ mainPc = "run"
  /\ pc = "done"
  /\ returnedRuns' = returnedRuns + 1
  /\ IF save_to_csv(books) = None
     THEN /\ mainPc' = "raised"
          /\ UNCHANGED artifact
     ELSE /\ mainPc' = "saved"
          /\ artifact' = save_to_csv(books)
  /\ UNCHANGED <<stdout, invocations, crawlVars>>

\* The script has ended and is invoked again in the same directory: the
\* file system and the site are what they were, the process is new.
MainInvokeAgain ==
  /\ mainPc \in {"skipped", "saved", "raised"}
  /\ invocations < MaxInvocations
  /\ invocations' = invocations + 1
  /\ mainPc' = "start"
  /\ stdout' = <<>>
  /\ pc' = "idle"
  /\ index_url' = StartURL
  /\ text' = None
  /\ books' = <<>>
  /\ processed_books' = {}
  /\ tasks' = <<>>
  /\ progress' = [total |-> 0, n |-> 0]
  /\ pagesProcessed' = 0
  /\ nScheduled' = [b \in BookIds |-> 0]
  /\ eligible' = {}
  /\ completed' = <<>>
  /\ UNCHANGED <<artifact, returnedRuns, catalog>>

(***************************************************************************)
(* Specifications                                                          *)
(***************************************************************************)
\* fetch_text alone: one call, whatever its requests meet.
InitFetch == FetchInit /\ LocateIdle /\ CrawlIdle /\ DownloadIdle /\ MainIdle

FetchNext ==
  \/ FetchAttempt /\ UNCHANGED <<locVars, crawlVars, unitVars, mainVars>>
  \/ FetchSleep /\ UNCHANGED <<locVars, crawlVars, unitVars, mainVars>>

SpecFetch == InitFetch /\ [][FetchNext]_vars

\* get_book_data alone: one call for a book, in every archive of Worlds.
InitLocate == FetchIdle /\ LocateInit /\ CrawlIdle /\ DownloadIdle /\ MainIdle

LocateNext ==
  \/ /\ LocateProbe("versioned")
     /\ UNCHANGED <<fetchVars, crawlVars, unitVars, mainVars>>
  \/ /\ LocateProbe("unversioned")
     /\ UNCHANGED <<fetchVars, crawlVars, unitVars, mainVars>>

SpecLocate == InitLocate /\ [][LocateNext]_vars

\* One run of get_books_list over every catalog.
Init == FetchIdle /\ LocateIdle /\ CrawlInit /\ DownloadIdle /\ MainIdle

StepIndexFetch ==
  /\ \E r \in IndexResults(index_url) : IndexFetch(r)
  /\ UNCHANGED <<fetchVars, locVars, unitVars, mainVars>>

StepUnitMetadata ==
  /\ \E k \in 1..Len(tasks) : UnitMetadata(k)
  /\ UNCHANGED <<fetchVars, locVars, unitVars, mainVars>>

StepUnitData ==
  /\ \E k \in 1..Len(tasks) : UnitData(k)
  /\ UNCHANGED <<fetchVars, locVars, unitVars, mainVars>>

StepGatherReturn ==
  GatherReturn /\ UNCHANGED <<fetchVars, locVars, unitVars, mainVars>>

Next == StepIndexFetch \/ StepUnitMetadata \/ StepUnitData \/ StepGatherReturn

Spec == Init /\ [][Next]_vars

\* One download_books unit for a listing entry, call by call, in every
\* archive of Worlds and for every detail page.
InitDownload == FetchIdle /\ CrawlIdle /\ MainIdle /\ DownloadInit

StepDownloadMetadata ==
  /\ \E r \in DetailResults : DownloadMetadata(r)
  /\ UNCHANGED <<fetchVars, crawlVars, mainVars>>

StepDownloadProbe ==
  /\ unitPc = "data"
  /\ LocateProbe("versioned") \/ LocateProbe("unversioned")
  /\ UNCHANGED <<fetchVars, crawlVars, unitVars, mainVars>>

StepDownloadData == DownloadData /\ UNCHANGED <<fetchVars, crawlVars, mainVars>>

DownloadNext == StepDownloadMetadata \/ StepDownloadProbe \/ StepDownloadData

SpecDownload == InitDownload /\ [][DownloadNext]_vars

\* The script invoked up to MaxInvocations times over one site.
InitMain == FetchIdle /\ LocateIdle /\ DownloadIdle /\ MainInit

StepMainEntry == MainEntry /\ UNCHANGED <<fetchVars, locVars, unitVars>>

StepMainCrawl ==
  /\ mainPc = "run"
  /\ \/ \E r \in IndexResults(index_url) : IndexFetch(r)
     \/ \E k \in 1..Len(tasks) : UnitMetadata(k)
     \/ \E k \in 1..Len(tasks) : UnitData(k)
     \/ GatherReturn
  /\ UNCHANGED <<fetchVars, locVars, unitVars, mainVars>>

StepMainSave == MainSave /\ UNCHANGED <<fetchVars, locVars, unitVars>>

StepMainInvokeAgain ==
  MainInvokeAgain /\ UNCHANGED <<fetchVars, locVars, unitVars>>

MainNext ==
  StepMainEntry \/ StepMainCrawl \/ StepMainSave \/ StepMainInvokeAgain

SpecMain == InitMain /\ [][MainNext]_vars

\* A run in which every index page is served: each fetch of an index URL
\* returns the page the catalog holds.  The event loop resumes a coroutine
\* whose await has ended, and every await ends (each request is bounded by
\* its timeout, each sleep by its length), so a step that stays enabled is
\* taken.
StepIndexServed ==
  /\ IndexFetch(Some(catalog[index_url]))
  /\ UNCHANGED <<fetchVars, locVars, unitVars, mainVars>>

NextServed ==
  StepIndexServed \/ StepUnitMetadata \/ StepUnitData \/ StepGatherReturn

SpecServed == Init /\ [][NextServed]_vars /\ WF_vars(NextServed)

(***************************************************************************)
(* Claims                                                                  *)
(***************************************************************************)
\* The ids of the records emitted so far: those in books, and those a
\* completed unit has returned and gather has yet to hand over.
EmittedIds ==
  { books[k].ID : k \in 1..Len(books) }
    \cup { tasks[k].result[1].ID :
             k \in { j \in 1..Len(tasks) :
                       tasks[j].pc = "done" /\ tasks[j].result # None } }

\* C1, as claimed: when the fetch of an index page returns None, the walk
\* ends: the step that receives None leaves the loop.
C1_FetchFailureEndsWalk ==
  [][(pc = "fetch" /\ text' = None) => pc' = "done"]_vars

\* C2: a record is emitted for a book id if and only if its unit resolved
\* a language equal to "english" in any letter case and the locator
\* returned a content; no other id has a record.
C2_RecordIffEnglishAndContent ==
  \A b \in BookIds : b \in EmittedIds <=> b \in eligible

\* C2, witness: a run ended with a record for one id and none for another
\* id it processed.
C2_Witness ==
  /\ pc = "done"
  /\ "12345" \in EmittedIds
  /\ "84" \in processed_books \ EmittedIds

\* C3: no book id gets a unit twice in one run.
C3_ScheduledAtMostOnce ==
  /\ \A b \in BookIds : nScheduled[b] <= 1
  /\ \A b \in BookIds : nScheduled[b] = 1 <=> b \in processed_books
  /\ \A j, k \in 1..Len(tasks) :
       j # k => book_id_of(tasks[j].book) # book_id_of(tasks[k].book)

\* C3, witness: a later page lists an id that a unit of an earlier page
\* ended without a record, and the page gets no unit for it.
C3_Witness ==
  /\ pc = "gather"
  /\ pagesProcessed >= 1
  /\ \E k \in 1..Len(text[1].entries) :
       LET id == book_id_of(text[1].entries[k])
       IN /\ id \notin EmittedIds
          /\ \A j \in 1..Len(tasks) : book_id_of(tasks[j].book) # id

\* The order C4 states: per version the seven formats, no-images epub
\* first and txt.utf8 last; versions 0 to 9, then the unversioned path.
FormatOrder ==
  << ".epub.noimages", ".epub", ".html.noimages", ".html", ".pdf", ".txt",
     ".txt.utf8" >>

ExpectedCandidates(book_id) ==
  [ n \in 1..77 |->
      IF n <= 70
      THEN "https://www.gutenberg.org/files/" \o book_id \o "/" \o book_id
             \o "-" \o ToString((n - 1) \div 7) \o FormatOrder[((n - 1) % 7) + 1]
      ELSE "https://www.gutenberg.org/files/" \o book_id \o "/" \o book_id
             \o FormatOrder[n - 70] ]

\* C4: the probes made so far are the first candidates of the stated
\* order; every probe but the last one made has failed; a returned text is
\* what the last probe fetched; None is returned only after all 77
\* candidates, pairwise distinct, have been probed.
C4_ProbeOrder ==
  LET expected == ExpectedCandidates(locBook)
      n == Len(probed)
  IN /\ n <= 77
     /\ probed = SubSeq(expected, 1, n)
     /\ \A j \in 1..(n - 1) : ~Truthy(ServerFetch(world, probed[j]))
     /\ locPc \in {"versioned", "unversioned"}
          => /\ locRet = None
             /\ \A j \in 1..n : ~Truthy(ServerFetch(world, probed[j]))
     /\ (locPc = "returned" /\ locRet # None)
          => /\ Truthy(locRet)
             /\ locRet = ServerFetch(world, probed[n])
     /\ (locPc = "returned" /\ locRet = None)
          => /\ n = 77
             /\ Cardinality({ probed[j] : j \in 1..n }) = 77
             /\ ~Truthy(ServerFetch(world, probed[n]))
     /\ locPc = "returned" => locRet = get_book_data(world, locBook)

\* C4, witness: a call returned the text of the plain html file of
\* version 9 after the 66 candidates before it failed, one of them with an
\* empty text.
C4_Witness ==
  /\ locPc = "returned"
  /\ locRet = Some("book text")
  /\ Len(probed) = 67
  /\ probed[67] = "https://www.gutenberg.org/files/12345/12345-9.html"
  /\ world["https://www.gutenberg.org/files/12345/12345-0.txt"] = Some("")

\* The ids listed on the index page the walker holds.
ListedIds == { book_id_of(text[1].entries[k]) : k \in 1..Len(text[1].entries) }

\* C5: while the walker is not waiting in gather (it is about to fetch an
\* index page, or has returned) every unit has completed, so no index page
\* is fetched and no unit is scheduled while a unit of the page before is
\* running; while it waits, the units are those of the page it holds and
\* each unit that has not completed can take its next step, whatever the
\* other units of the page have done.
C5_PageBarrier ==
  /\ pc # "gather" => \A k \in 1..Len(tasks) : tasks[k].pc = "done"
  /\ pc = "gather" =>
       /\ text[1] = catalog[index_url]
       /\ \A k \in 1..Len(tasks) :
            /\ book_id_of(tasks[k].book) \in ListedIds
            /\ tasks[k].pc # "done"
                 => ENABLED (UnitMetadata(k) \/ UnitData(k))

\* C5, witness: two units of one page are suspended in their requests at
\* the same time, neither has completed.
C5_Witness ==
  /\ pc = "gather"
  /\ Len(tasks) = 2
  /\ tasks[1].pc = "data"
  /\ tasks[2].pc = "metadata"

\* Whether an attempt ended in a failure of one of the classes of C6:
\* a timeout or a transport error of the request, or a status other
\* than 200.
FailedByClass(resp) == resp.exc # "none" \/ resp.status # 200

\* Whether an attempt got status 200 and then failed while the body was read.
FailedInBody(resp) == resp.exc = "none" /\ resp.status = 200 /\ resp.read # "ok"

\* The text a 200 response with a readable body decodes to.
TextOf(resp) == IF resp.utf8 # None THEN resp.utf8[1] ELSE resp.latin1

\* C6, as claimed: at most 3 attempts; each failure takes one attempt; the
\* first attempt whose status is 200 ends the call with its decoded text;
\* None is returned only after 3 failed attempts.
C6_ReturnsOnFirst200 ==
  LET n == Len(responses)
  IN /\ n <= 3
     /\ fetchPc = "get" => attempt = n
     /\ \A j \in 1..n :
          (responses[j].exc = "none" /\ responses[j].status = 200)
            => /\ j = n
               /\ fetchPc = "returned"
               /\ fetchRet = Some(TextOf(responses[j]))
     /\ (fetchPc = "returned" /\ fetchRet = None)
          => /\ n = 3
             /\ \A j \in 1..n : FailedByClass(responses[j])

\* C6, amended: at most 3 attempts; each failure takes one attempt, a
\* failure being a timeout, a transport error, a status other than 200, or
\* a status 200 whose body cannot be read; the first attempt whose status
\* is 200 and whose body is read ends the call with its decoded text, the
\* fallback decoding included; None is returned only after 3 failed
\* attempts.
C6_ReturnsOnFirstRead200 ==
  LET n == Len(responses)
  IN /\ n <= 3
     /\ fetchPc = "get" => attempt = n
     /\ fetchPc = "sleep" => attempt = n - 1
     /\ \A j \in 1..n :
          (responses[j].exc = "none" /\ responses[j].status = 200
             /\ responses[j].read = "ok")
            => /\ j = n
               /\ fetchPc = "returned"
               /\ fetchRet = Some(TextOf(responses[j]))
     /\ \A j \in 1..(n - 1) :
          FailedByClass(responses[j]) \/ FailedInBody(responses[j])
     /\ fetchPc # "returned" =>
          \A j \in 1..n : FailedByClass(responses[j]) \/ FailedInBody(responses[j])
     /\ (fetchPc = "returned" /\ fetchRet # None)
          => /\ n >= 1
             /\ responses[n].status = 200
             /\ responses[n].read = "ok"
     /\ (fetchPc = "returned" /\ fetchRet = None)
          => /\ n = 3
             /\ \A j \in 1..n :
                  FailedByClass(responses[j]) \/ FailedInBody(responses[j])
     /\ fetchPc = "returned" => fetchRet = fetch_text(responses \o
          [j \in 1..(3 - n) |-> Response("error", 0, "none", None, "")])

\* C6, witness: the third attempt got status 200 with a body the primary
\* decoding rejects, after a status 200 whose body read timed out and a
\* status 503; the call returned the fallback decoding.
C6_Witness ==
  /\ fetchPc = "returned"
  /\ fetchRet = Some("latin-1 text")
  /\ Len(responses) = 3
  /\ FailedInBody(responses[1])
  /\ responses[2].status = 503

\* C7, as claimed: before each attempt after the first, the call has slept
\* 2^k time units after its k-th earlier attempt (k counted from 0),
\* whatever made that attempt fail: 1 unit, then 2 units.
C7_BackoffAfterEveryFailure ==
  fetchPc = "get" =>
    sleeps = [j \in 1..Len(responses) |-> 2 ^ (j - 1)]

\* The index URL the catalog leads to after k "Next" links from the start
\* URL (None: the chain has ended before).
RECURSIVE PathUrl(_)
PathUrl(k) ==
  IF k = 0 THEN Some("https://www.gutenberg.org/ebooks/search/?sort_order=downloads&languages=en")
  ELSE LET u == PathUrl(k - 1)
       IN IF u = None \/ catalog[u[1]].next = None THEN None
          ELSE Some("https://www.gutenberg.org" \o catalog[u[1]].next[1])

\* A page that ends the walk: no listing entry, or no "Next" link.
Stops(url) == catalog[url].entries = <<>> \/ catalog[url].next = None

\* The walker's URL is k links from the start and no page before it ends
\* the walk.
OnPath(k) ==
  /\ PathUrl(k) = Some(index_url)
  /\ \A j \in 0..(k - 1) : ~Stops(PathUrl(j)[1])

\* C8: the walker never goes past a page that has no listing entry or no
\* "Next" link; when it has returned, the page it holds was fetched with a
\* text and is such a page.  If that page has entries (and no "Next" link)
\* its units have all run and the count of processed pages is its place
\* in the chain; if it has no entry it is not counted, no unit was
\* scheduled for it and its link was not followed.
C8_WalkEndsAtFirstStop ==
  /\ \E k \in 0..(NumPages - 1) : OnPath(k)
  /\ pc = "done" =>
       /\ TruthyPage(text)
       /\ text[1] = catalog[index_url]
       /\ Stops(index_url)
       /\ \A j \in 1..Len(tasks) : tasks[j].pc = "done"
       /\ \E k \in 0..(NumPages - 1) :
            /\ OnPath(k)
            /\ IF text[1].entries # <<>>
               THEN /\ pagesProcessed = k + 1
                    /\ progress.total = Len(text[1].entries)
                    /\ \A j \in 1..Len(tasks) :
                         book_id_of(tasks[j].book) \in ListedIds
               ELSE /\ pagesProcessed = k
                    /\ k = 0 => tasks = <<>>
                    /\ k > 0 =>
                         \A j \in 1..Len(tasks) :
                           \E e \in 1..Len(catalog[PathUrl(k - 1)[1]].entries) :
                             tasks[j].book = catalog[PathUrl(k - 1)[1]].entries[e]

\* C8, witness: the walk ended on its second page, which has entries and
\* no "Next" link, and two pages were processed.
C8_Witness ==
  /\ pc = "done"
  /\ text[1].entries # <<>>
  /\ text[1].next = None
  /\ pagesProcessed = 2

\* Whether the chain of "Next" links from the start URL reaches a page
\* that ends the walk.
ChainEnds ==
  \E k \in 0..(NumPages - 1) : PathUrl(k) # None /\ Stops(PathUrl(k)[1])

\* C9, as claimed: when every index page is served, the walk returns,
\* whatever the "Next" links point to.
C9_WalkReturns == <>(pc = "done")

\* C9, amended: when every index page is served and the chain of "Next"
\* links from the start URL reaches a page with no listing entry or no
\* "Next" link, the walk returns.
C9_WalkReturnsIfChainEnds == ChainEnds ~> (pc = "done")

\* C9, witness: a walk that followed a "Next" link has returned.
C9_Witness ==
  /\ pc = "done"
  /\ ChainEnds
  /\ index_url # StartURL
  /\ pagesProcessed >= 1

\* The place in books of the record of unit k of the page (0: no record).
RecordPos(k) ==
  IF \E n \in 1..Len(books) : books[n].ID = book_id_of(tasks[k].book)
  THEN CHOOSE n \in 1..Len(books) : books[n].ID = book_id_of(tasks[k].book)
  ELSE 0

\* The place of unit k in the order of completion (0: still running).
CompletionPos(k) ==
  IF \E n \in 1..Len(completed) : completed[n] = k
  THEN CHOOSE n \in 1..Len(completed) : completed[n] = k
  ELSE 0

\* The units of the page that returned a record, in the order of the tasks.
Recorded == WithRecord(tasks, [n \in 1..Len(tasks) |-> n], 1)

\* C11, as claimed: the records of a page are emitted in the order their
\* units complete: once gather has returned, of two units of the page that
\* both yielded a record the one that completed first has its record
\* first, so a unit listed later that completed before a unit listed
\* earlier has its record before that unit's.
C11_EmittedInCompletionOrder ==
  pc # "gather" =>
    \A j, k \in 1..Len(tasks) :
      (tasks[j].result # None /\ tasks[k].result # None
         /\ CompletionPos(k) < CompletionPos(j))
        => RecordPos(k) < RecordPos(j)

\* C11, amended: the units of a page are scheduled in listing order, and
\* the records of the page are emitted in that same order whatever the
\* order the units complete in: once gather has returned, the records of
\* the page are the last records of books, one per unit that yielded a
\* record, in the order of the tasks, so a record listed later never
\* precedes a record listed earlier on the page.
C11_EmittedInListingOrder ==
  /\ pc = "gather" =>
       \A j, k \in 1..Len(tasks) :
         j < k => \E a, b \in 1..Len(text[1].entries) :
                    /\ a < b
                    /\ text[1].entries[a] = tasks[j].book
                    /\ text[1].entries[b] = tasks[k].book
  /\ \A n \in 1..Len(completed) :
       /\ completed[n] \in 1..Len(tasks)
       /\ tasks[completed[n]].pc = "done"
  /\ pc # "gather" =>
       /\ Len(completed) = Len(tasks)
       /\ Len(Recorded) <= Len(books)
       /\ \A m \in 1..Len(Recorded) :
            books[Len(books) - Len(Recorded) + m] = tasks[Recorded[m]].result[1]
       /\ \A j, k \in 1..Len(tasks) :
            (tasks[j].result # None /\ tasks[k].result # None /\ j < k)
              => /\ 0 < RecordPos(j)
                 /\ RecordPos(j) < RecordPos(k)

\* C11, witness: gather has returned for a page whose second unit
\* completed before its first and both yielded a record.
C11_Witness ==
  /\ pc # "gather"
  /\ Len(tasks) = 2
  /\ completed = <<2, 1>>
  /\ tasks[1].result # None
  /\ tasks[2].result # None
  /\ RecordPos(1) < RecordPos(2)

\* Whether the detail page the unit fetched has a table row whose header
\* is th.
HasRow(th) ==
  /\ metaText # None
  /\ metaText[1].table
  /\ \E n \in 1..Len(metaText[1].rows) : metaText[1].rows[n].th = th

\* C12: get_book_metadata ends with a year and a language in every case,
\* after exactly one call of fetch_text, for the detail page of the
\* unit's book; when that call returned None both fields are "Unknown"; a
\* field whose row the page lacks is "Unknown"; a unit whose language is
\* "Unknown" ends there, with no record and no content probe.
C12_MetadataDefaults ==
  /\ unitPc = "metadata" => metaUrls = <<>>
  /\ unitPc \in {"data", "done"} =>
       /\ metaUrls =
            << IF unitBook.href = <<"", "ebooks", "12345">>
               THEN "https://www.gutenberg.org/ebooks/12345"
               ELSE "https://www.gutenberg.org/ebooks/84" >>
       /\ DOMAIN unitMetadata = {"year", "language"}
       /\ unitMetadata.year \in {"Unknown", "1998", "2004"}
       /\ unitMetadata.language \in {"Unknown", "English", "French"}
       /\ metaText = None =>
            unitMetadata = [year |-> "Unknown", language |-> "Unknown"]
       /\ ~HasRow("Language") => unitMetadata.language = "Unknown"
       /\ ~HasRow("Release Date") => unitMetadata.year = "Unknown"
       /\ unitMetadata.language = "Unknown" =>
            /\ unitPc = "done"
            /\ unitRet = None
            /\ unitText = None
            /\ probed = <<>>
            /\ locPc = "idle"

\* C12, witness: the detail page of a book could not be fetched; the unit
\* has ended with no record, though the archive serves the first candidate
\* of the book.
C12_Witness ==
  /\ unitPc = "done"
  /\ metaText = None
  /\ unitMetadata = [year |-> "Unknown", language |-> "Unknown"]
  /\ unitRet = None
  /\ unitBook = E1
  /\ world["https://www.gutenberg.org/files/12345/12345-0.epub.noimages"]
       = Some("book text")

\* A candidate URL whose three attempts all time out makes fetch_text
\* return None, and the locator goes on: with the first candidate of a
\* book in that state it returns what a later candidate serves.
ThreeTimeoutsAdvance ==
  LET timeout == [exc |-> "timeout", status |-> 0, read |-> "none",
                  utf8 |-> None, latin1 |-> ""]
      first == "https://www.gutenberg.org/files/12345/12345-0.epub.noimages"
      later == "https://www.gutenberg.org/files/12345/12345-0.txt"
  IN /\ fetch_text(<<timeout, timeout, timeout>>) = None
     /\ \A w \in Worlds :
          (w[first] = fetch_text(<<timeout, timeout, timeout>>)
             /\ w[later] = Some("book text"))
            => get_book_data(w, "12345") = Some("book text")

\* Whether unit k has ended on one of the failures of C13: its metadata
\* was not resolved or names another language, or its search for a
\* content was exhausted.
UnitFailed(k) ==
  /\ tasks[k].pc = "done"
  /\ \/ tasks[k].metadata.language \notin {"english", "English", "ENGLISH"}
     \/ tasks[k].text = None

\* C13: a failure of one book stays with its unit.  A candidate that times
\* out three times is passed over; a unit that failed has no record and
\* no record of books bears its id; while gather waits, every unit of the
\* page that has not completed can still take its step when another has
\* failed, and a unit that completed with a content has its own record;
\* once gather has returned, the walker is at the page's "Next" link, or
\* has returned when the page has none, whether or not a unit of the page
\* yielded a record.
C13_BookFailureStaysLocal ==
  /\ ThreeTimeoutsAdvance
  /\ \A k \in 1..Len(tasks) :
       /\ UnitFailed(k) =>
            /\ tasks[k].result = None
            /\ \A n \in 1..Len(books) :
                 books[n].ID # tasks[k].book.href[3]
       /\ (tasks[k].pc = "done" /\ ~UnitFailed(k)) =>
            /\ tasks[k].result # None
            /\ tasks[k].result[1].ID = tasks[k].book.href[3]
            /\ tasks[k].result[1].Text = tasks[k].text[1]
       /\ (pc = "gather" /\ tasks[k].pc # "done"
             /\ \E j \in 1..Len(tasks) : UnitFailed(j))
            => ENABLED (UnitMetadata(k) \/ UnitData(k))
  /\ (pc = "fetch" /\ TruthyPage(text)) =>
       /\ text[1].next # None
       /\ index_url = "https://www.gutenberg.org" \o text[1].next[1]
       /\ \A k \in 1..Len(tasks) : tasks[k].pc = "done"
  /\ (pc = "done" /\ text[1].entries # <<>>) => text[1].next = None

\* C13, witness: both units of a page failed, one by its language and one
\* by an exhausted search; no record was emitted and the walker is at the
\* page's "Next" link, about to fetch the second page.
C13_Witness ==
  /\ pc = "fetch"
  /\ TruthyPage(text)
  /\ index_url # StartURL
  /\ books = <<>>
  /\ Len(tasks) = 2
  /\ tasks[1].pc = "done"
  /\ tasks[1].metadata.language = "French"
  /\ tasks[2].pc = "done"
  /\ tasks[2].metadata.language = "English"
  /\ tasks[2].text = None

\* C14, as claimed: an invocation that finds the file ends at once, with
\* no request made and the file left as it is; an invocation that does not
\* find it runs get_books_list once; and once a run has returned, with
\* records or with none, the file exists, so that the next invocation is
\* one of the first kind.
C14_RepeatInvocationIsNoOp ==
  /\ [][(mainPc = "start" /\ artifact # None)
          => /\ mainPc' = "skipped"
             /\ artifact' = artifact
             /\ UNCHANGED crawlVars]_vars
  /\ [][(mainPc = "start" /\ artifact = None)
          => (mainPc' = "run" /\ pc' = "fetch" /\ artifact' = None)]_vars
  /\ [](mainPc = "skipped" => (pc = "idle" /\ text = None /\ tasks = <<>>))
  /\ [](returnedRuns >= 1 => artifact # None)

\* C15: a unit resolves its metadata before any content probe: while the
\* metadata call is pending the locator is not called and no candidate URL
\* is requested; the locator is called only with the language resolved to
\* english in some letter case; a unit whose language is another ends
\* with no candidate URL ever requested, whatever the archive serves.
C15_MetadataBeforeContent ==
  /\ unitPc = "metadata" => (probed = <<>> /\ locPc = "idle")
  /\ (probed # <<>> \/ locPc # "idle") =>
       /\ unitPc \in {"data", "done"}
       /\ Len(metaUrls) = 1
       /\ unitMetadata.language \in {"english", "English", "ENGLISH"}
  /\ (unitPc = "done"
        /\ unitMetadata.language \notin {"english", "English", "ENGLISH"}) =>
       /\ probed = <<>>
       /\ locPc = "idle"
       /\ unitText = None
       /\ unitRet = None
  /\ (unitPc = "done"
        /\ unitMetadata.language \in {"english", "English", "ENGLISH"}) =>
       /\ probed # <<>>
       /\ locPc = "returned"

\* C15, witness: a unit whose language resolved to French has ended with
\* no probe, in an archive that serves the first candidate of its book.
C15_Witness ==
  /\ unitPc = "done"
  /\ unitMetadata.language = "French"
  /\ probed = <<>>
  /\ unitBook = E2
  /\ world["https://www.gutenberg.org/files/84/84.txt.utf8"] = Some("book text")

\* C16: the processed set changes only in the step that schedules a page,
\* taken while no unit is in flight, and all its look-ups and insertions
\* for the page are over when the units start: in that step every unit of
\* the page is new (nothing has returned to it), the ids of the units are
\* pairwise distinct and all in the set; while units are in flight the
\* set holds the id of each and does not change.
C16_ProcessedSetBeforeUnits ==
  /\ [][processed_books' # processed_books =>
          /\ pc = "fetch"
          /\ \A k \in 1..Len(tasks) : tasks[k].pc = "done"
          /\ pc' = "gather"
          /\ \A k \in 1..Len(tasks') :
               /\ tasks'[k].pc = "metadata"
               /\ tasks'[k].text = None
               /\ tasks'[k].result = None
               /\ tasks'[k].book.href[3] \in processed_books'
               /\ tasks'[k].book.href[3] \notin processed_books]_vars
  /\ [][(\E k \in 1..Len(tasks) : tasks[k].pc # "done")
          => processed_books' = processed_books]_vars
  /\ [](pc = "gather" =>
          \A j, k \in 1..Len(tasks) :
            /\ tasks[k].book.href[3] \in processed_books
            /\ j # k => tasks[j].book.href[3] # tasks[k].book.href[3])

\* C16, witness: the unit of the second page is in flight; the set holds
\* its id and the id the first page brought in.
C16_Witness ==
  /\ pc = "gather"
  /\ pagesProcessed = 1
  /\ Len(text[1].entries) = 2
  /\ Len(tasks) = 1
  /\ tasks[1].pc = "data"
  /\ processed_books = {"12345", "84"}

\* C17: the processed set only grows; it holds the id of every record of
\* books; no two records of books bear the same id; an id is in the set
\* exactly when a unit was scheduled for it, which happens at most once in
\* a run, so an id whose unit ended without a record gets no second unit
\* when a later page lists it: the units of a page bear ids that were not
\* in the set before the page.
C17_ProcessedSetGrows ==
  /\ [][processed_books \subseteq processed_books']_vars
  /\ [][tasks' # tasks =>
          \A k \in 1..Len(tasks') :
            tasks'[k].pc # "done" =>
              \/ tasks'[k].book.href[3] \notin processed_books
              \/ \E j \in 1..Len(tasks) :
                   /\ tasks[j].book = tasks'[k].book
                   /\ tasks[j].pc # "done"]_vars
  /\ [](/\ \A n \in 1..Len(books) : books[n].ID \in processed_books
        /\ \A m, n \in 1..Len(books) : m # n => books[m].ID # books[n].ID
        /\ \A b \in {"12345", "84"} :
             /\ nScheduled[b] <= 1
             /\ b \in processed_books <=> nScheduled[b] = 1)

\* C17, witness: the walk is over after two pages that both list book
\* 12345; its one unit, of the first page, ended without a record, the
\* second page got no unit, and no record exists.
C17_Witness ==
  /\ pc = "done"
  /\ pagesProcessed = 2
  /\ text = Some(Page("<html>", <<E1>>, None))
  /\ nScheduled["12345"] = 1
  /\ processed_books = {"12345"}
  /\ tasks = <<>>
  /\ books = <<>>

\* The units with a call of fetch_text pending.  A unit is one coroutine:
\* it awaits one call at a time, the metadata call or one probe, and a
\* call has at most one request open, so this set bounds from above the
\* requests of units in flight.
UnitsInFlight == { k \in 1..Len(tasks) : tasks[k].pc \in {"metadata", "data"} }

\* Whether the walker has a call of fetch_text for an index page pending.
IndexInFlight == pc = "fetch"

ServedCandidates(book_id) ==
  IF book_id = "12345"
  THEN { "https://www.gutenberg.org/files/12345/12345-0.txt",
         "https://www.gutenberg.org/files/12345/12345-0.epub.noimages",
         "https://www.gutenberg.org/files/12345/12345-9.html" }
  ELSE { "https://www.gutenberg.org/files/84/84.txt.utf8" }

\* Whether the j-th probe of the call fetched the empty text.
ProbedEmpty(j) == probed[j] \in DOMAIN world /\ world[probed[j]] = Some("")

\* C19: get_book_data never returns the empty text; a candidate fetched
\* with the empty text does not end the search: the next candidate is
\* probed, and after the last one None is returned; a book all of whose
\* served candidates are empty yields None after all 77 probes, and such
\* a unit yields no record.
C19_NeverEmptyText ==
  /\ locRet # Some("")
  /\ (locPc = "returned" /\ locRet # None) =>
       /\ locRet[1] # ""
       /\ ~ProbedEmpty(Len(probed))
  /\ \A j \in 1..Len(probed) :
       ProbedEmpty(j) =>
         /\ j = Len(probed) => locRet = None
         /\ (j = Len(probed) /\ locPc = "returned") => j = 77
         /\ (j = Len(probed) /\ j < 77) => locPc \in {"versioned", "unversioned"}
  /\ (locPc = "returned"
        /\ \A u \in ServedCandidates(locBook) : world[u] \in {None, Some("")}) =>
       /\ locRet = None
       /\ Len(probed) = 77
       /\ \A md \in MetadataResults :
            UnitResult(Entry(locBook, None, None), md, locRet) = None

\* C19, witness: every candidate the archive serves for the book is empty;
\* the call has returned None after probing them all.
C19_Witness ==
  /\ locPc = "returned"
  /\ locBook = "12345"
  /\ \A u \in ServedCandidates("12345") : world[u] = Some("")
  /\ locRet = None
  /\ Len(probed) = 77

\* The sum of the sleeps of the call.
RECURSIVE SumSeq(_)
SumSeq(s) == IF s = <<>> THEN 0 ELSE s[1] + SumSeq(Tail(s))

\* C20: a call sleeps only between two attempts: never after its third
\* attempt and never after the attempt that succeeded.  It sleeps at most
\* twice, 1 unit and 2 units at most, 3 units in all; a sleep of 4 units
\* never occurs.
C20_SleepsOnlyBetweenAttempts ==
  /\ Len(sleeps) <= 2
  /\ sleeps \in {<<>>, <<1>>, <<2>>, <<1, 2>>}
  /\ SumSeq(sleeps) <= 3
  /\ \A j \in 1..Len(sleeps) : sleeps[j] # 4
  /\ Len(sleeps) <= Len(responses)
  /\ fetchPc = "sleep" =>
       /\ Len(responses) \in {1, 2}
       /\ Len(sleeps) < Len(responses)
       /\ ~(responses[Len(responses)].status = 200
              /\ responses[Len(responses)].read = "ok")
  /\ fetchPc = "returned" =>
       /\ Len(responses) >= 1
       /\ Len(sleeps) < Len(responses)
       /\ fetchRet = None => Len(responses) = 3

\* C20, witness: three attempts timed out; the call slept 1 and 2 units
\* between them and returned None with no third sleep.
C20_Witness ==
  /\ fetchPc = "returned"
  /\ fetchRet = None
  /\ Len(responses) = 3
  /\ \A j \in 1..3 : responses[j].exc = "timeout"
  /\ sleeps = <<1, 2>>

\* C10, as claimed: the counter of a page counts the completed units, one
\* per unit whatever its outcome, and once gather has returned for the
\* page the counter equals the page's listing size.
C10_CounterReachesListingSize ==
  /\ progress.n = Cardinality({ k \in 1..Len(tasks) : tasks[k].pc = "done" })
  /\ (pc # "gather" /\ pagesProcessed >= 1) => progress.n = progress.total

====
